---------------------------- MODULE Spec2Model ----------------------------
(***************************************************************************)
(* doom-front: the string interner (src/front/src/lib.rs) and the CVARINFO *)
(* grammar (src/front/src/cvarinfo.rs).                                    *)
(*                                                                         *)
(* Texts are sequences of one-character strings.  Indices are 0-based, as  *)
(* StringIndex(usize) is.                                                  *)
(***************************************************************************)
EXTENDS Integers, Sequences, FiniteSets, TLC

VARIABLES
    set,        \* Interner.set: the IndexSet, as the sequence of its entries
    readers,    \* RwLock: the threads holding a read guard
    writer,     \* RwLock: the thread holding the write guard, or NoThread
    pc,         \* per thread: where it is inside intern / hash / fmt
    text,       \* per thread: the `string` argument of its intern call
    handle,     \* per thread: the index of the StringHandle it last got
    issued,     \* every handle an operation has returned: [text, index, epoch]
    epoch,      \* number of _clear calls so far
    ret,        \* the last sequential operation and what it returned
    input,      \* the lump text handed to CVarInfo::parse
    written,    \* the declarations the author of the lump wrote, in order
    malformed,  \* the author wrote something that is no declaration
    intact,     \* how many declarations were written before that
    glued,      \* two flags or two declarations were written with nothing between
    sep,        \* what the author puts between tokens
    phase,      \* "write", "closed" (the text ends inside a comment), "parsed"
    result,     \* what CVarInfo::parse returned
    before      \* the interner's entries when CVarInfo::parse was called

threadVars == <<readers, writer, pc, text, handle, issued, epoch, ret>>
parseVars ==
    <<input, written, malformed, intact, glued, sep, phase, result, before>>

vars == <<set, threadVars, parseVars>>

----------------------------------------------------------------------------
(* Bounds *)

NumThreads == 2
MaxClears == 1

Threads == 1..NumThreads
NoThread == 0
NoIndex == -1

\* the texts the callers intern
Texts == {<<"x">>, <<"y">>}
Panic == <<"index out of bounds">>

----------------------------------------------------------------------------
(* Interner *)

\* IndexSet::get_index_of
TryLookup(tbl, s) ==
    IF \E i \in 1..Len(tbl) : tbl[i] = s
    THEN (CHOOSE i \in 1..Len(tbl) : tbl[i] = s) - 1
    ELSE NoIndex

\* A plausible defect: insertion without deduplication (a Vec push).
AddPush(tbl, s) == [set |-> Append(tbl, s), index |-> Len(tbl)]

\* A plausible defect: the new entry goes first and shifts the others.
AddFront(tbl, s) ==
    IF TryLookup(tbl, s) # NoIndex
    THEN [set |-> tbl, index |-> TryLookup(tbl, s)]
    ELSE [set |-> <<s>> \o tbl, index |-> 0]

\* Interner::add: IndexSet::insert_full, which keeps an equal entry and
\* returns its index, and otherwise appends.
Add(tbl, s) ==
    IF TryLookup(tbl, s) # NoIndex
    THEN [set |-> tbl, index |-> TryLookup(tbl, s)]
    ELSE [set |-> Append(tbl, s), index |-> Len(tbl)]

\* Interner::get: self.set[index.0], which panics out of bounds.
Get(tbl, i) == IF i \in 0..(Len(tbl) - 1) THEN tbl[i + 1] ELSE Panic

\* Interner::_lookup
Lookup(tbl, s) ==
    IF TryLookup(tbl, s) # NoIndex
    THEN [set |-> tbl, index |-> TryLookup(tbl, s)]
    ELSE Add(tbl, s)

Handle(s, i) == [text |-> s, index |-> i, epoch |-> epoch]

----------------------------------------------------------------------------
(* Interner::intern, StringHandle::hash and StringHandle::fmt, per thread *)

InitIntern ==
    /\ readers = {}
    /\ writer = NoThread
    /\ pc = [t \in Threads |-> "idle"]
    /\ text = [t \in Threads |-> <<>>]
    /\ handle = [t \in Threads |-> NoIndex]
    /\ issued = {}
    /\ epoch = 0
    /\ ret = [op |-> "new_arc", index |-> NoIndex, text |-> <<>>]

NoResult == [ok |-> FALSE, cvars |-> <<>>]

\* no lump is parsed
InitNoLump ==
    /\ input = <<>>
    /\ written = <<>>
    /\ malformed = FALSE
    /\ intact = 0
    /\ glued = FALSE
    /\ sep = <<>>
    /\ phase = "parsed"
    /\ result = NoResult
    /\ before = <<>>

\* parking_lot's RwLock: a reader waits while a writer holds the lock or is
\* waiting for it; a writer waits for the readers and the writer to leave.
WriterWaiting == \E t \in Threads : pc[t] = "write_req"
CanRead == writer = NoThread /\ ~WriterWaiting
CanWrite == writer = NoThread /\ readers = {}

\* a call of Interner::intern(this, s) starts
InternCall(t) ==
    /\ pc[t] = "idle"
    /\ \E s \in Texts : text' = [text EXCEPT ![t] = s]
    /\ pc' = [pc EXCEPT ![t] = "read_req"]
    /\ UNCHANGED <<set, readers, writer, handle, issued, epoch, ret,
                   parseVars>>

\* let guard = this.read();
InternRead(t) ==
    /\ pc[t] = "read_req"
    /\ CanRead
    /\ readers' = readers \cup {t}
    /\ pc' = [pc EXCEPT ![t] = "lookup"]
    /\ UNCHANGED <<set, writer, text, handle, issued, epoch, ret, parseVars>>

\* if let Some(s) = guard.try_lookup(string) { return ... }: the guard drops
InternHit(t) ==
    /\ pc[t] = "lookup"
    /\ TryLookup(set, text[t]) # NoIndex
    /\ handle' = [handle EXCEPT ![t] = TryLookup(set, text[t])]
    /\ issued' = issued \cup {Handle(text[t], TryLookup(set, text[t]))}
    /\ readers' = readers \ {t}
    /\ text' = [text EXCEPT ![t] = <<>>]
    /\ pc' = [pc EXCEPT ![t] = "idle"]
    /\ UNCHANGED <<set, writer, epoch, ret, parseVars>>

\* A plausible defect: the read guard outlives the first block.
InternMissKeepsGuard(t) ==
    /\ pc[t] = "lookup"
    /\ TryLookup(set, text[t]) = NoIndex
    /\ pc' = [pc EXCEPT ![t] = "write_req"]
    /\ UNCHANGED <<set, readers, writer, text, handle, issued, epoch, ret,
                   parseVars>>

\* the lookup misses and the first block ends: the guard drops
InternMiss(t) ==
    /\ pc[t] = "lookup"
    /\ TryLookup(set, text[t]) = NoIndex
    /\ readers' = readers \ {t}
    /\ pc' = [pc EXCEPT ![t] = "write_req"]
    /\ UNCHANGED <<set, writer, text, handle, issued, epoch, ret, parseVars>>

\* let mut guard = this.write();
InternWrite(t) ==
    /\ pc[t] = "write_req"
    /\ CanWrite
    /\ writer' = t
    /\ pc' = [pc EXCEPT ![t] = "add"]
    /\ UNCHANGED <<set, readers, text, handle, issued, epoch, ret, parseVars>>

\* StringHandle { index: guard.add(string) }: the guard drops
InternAdd(t) ==
    /\ pc[t] = "add"
    /\ set' = Add(set, text[t]).set
    /\ handle' = [handle EXCEPT ![t] = Add(set, text[t]).index]
    /\ issued' = issued \cup {Handle(text[t], Add(set, text[t]).index)}
    /\ writer' = NoThread
    /\ text' = [text EXCEPT ![t] = <<>>]
    /\ pc' = [pc EXCEPT ![t] = "idle"]
    /\ UNCHANGED <<readers, epoch, ret, parseVars>>

\* a call of hash or fmt on the handle the thread holds starts
HandleCall(t) ==
    /\ pc[t] = "idle"
    /\ handle[t] # NoIndex
    /\ pc' = [pc EXCEPT ![t] = "handle_req"]
    /\ UNCHANGED <<set, readers, writer, text, handle, issued, epoch, ret,
                   parseVars>>

\* self.interner.read()
HandleRead(t) ==
    /\ pc[t] = "handle_req"
    /\ CanRead
    /\ readers' = readers \cup {t}
    /\ pc' = [pc EXCEPT ![t] = "handle_get"]
    /\ UNCHANGED <<set, writer, text, handle, issued, epoch, ret, parseVars>>

\* .get(self.index) is hashed or written; the temporary guard drops (also
\* when get panics: parking_lot guards unlock on unwinding)
HandleGet(t) ==
    /\ pc[t] = "handle_get"
    /\ Get(set, handle[t]) \in Texts \cup {Panic}
    /\ readers' = readers \ {t}
    /\ pc' = [pc EXCEPT ![t] = "idle"]
    /\ UNCHANGED <<set, writer, text, handle, issued, epoch, ret, parseVars>>

Progress(t) ==
    \/ InternRead(t)
    \/ InternHit(t)
    \/ InternMiss(t)
    \/ InternWrite(t)
    \/ InternAdd(t)
    \/ HandleRead(t)
    \/ HandleGet(t)

NextIntern ==
    \E t \in Threads :
        \/ InternCall(t)
        \/ HandleCall(t)
        \/ Progress(t)

InitThreads == set = <<>> /\ InitIntern /\ InitNoLump

SpecIntern == InitThreads /\ [][NextIntern]_vars

FairSpecIntern == SpecIntern /\ \A t \in Threads : WF_vars(Progress(t))

----------------------------------------------------------------------------
(* The CVARINFO grammar: peg::parser! { grammar parser(interner) for str }  *)
(*                                                                         *)
(* A rule is an operator of the input s and a position p, the 1-based      *)
(* index of the next character; it yields the position after its match,   *)
(* or Fail, and it fails when p is Fail, so that a sequence `a b` is       *)
(* B(s, A(s, p)).  Alternatives are tried in the order written and the     *)
(* first to match is taken.  Spans hold 0-based offsets, as position!()    *)
(* gives them.                                                             *)

Fail == 0

UpperSeq ==
    <<"A", "B", "C", "D", "E", "F", "G", "H", "I", "J", "K", "L", "M", "N",
    "O", "P", "Q", "R", "S", "T", "U", "V", "W", "X", "Y", "Z">>
LowerSeq ==
    <<"a", "b", "c", "d", "e", "f", "g", "h", "i", "j", "k", "l", "m", "n",
    "o", "p", "q", "r", "s", "t", "u", "v", "w", "x", "y", "z">>
DigitSeq == <<"0", "1", "2", "3", "4", "5", "6", "7", "8", "9">>
HexSeq ==
    <<"0", "1", "2", "3", "4", "5", "6", "7", "8", "9", "a", "b", "c", "d",
    "e", "f">>

Letters == {UpperSeq[i] : i \in 1..26} \cup {LowerSeq[i] : i \in 1..26}
Digits == {DigitSeq[i] : i \in 1..10}

LowerMap ==
    [c \in {UpperSeq[i] : i \in 1..26} |->
        LowerSeq[CHOOSE i \in 1..26 : UpperSeq[i] = c]]

\* u8::to_ascii_lowercase
Lower(c) == IF c \in DOMAIN LowerMap THEN LowerMap[c] ELSE c

DigitVal == [c \in Digits |-> (CHOOSE i \in 1..10 : DigitSeq[i] = c) - 1]

HexDigits == {HexSeq[i] : i \in 1..16} \cup {UpperSeq[i] : i \in 1..6}
HexVal == [c \in HexDigits |-> (CHOOSE i \in 1..16 : HexSeq[i] = Lower(c)) - 1]

Span(start, end) == [start |-> start - 1, end |-> end - 1]

\* a / b on positions, and on results that hold a position
OrElse(a, b) == IF a # Fail THEN a ELSE b
OrElseR(a, b) == IF a.pos # Fail THEN a ELSE b

\* a string literal of the grammar, "..."
Lit(s, p, w) ==
    IF /\ p # Fail
       /\ p + Len(w) - 1 <= Len(s)
       /\ \A i \in 1..Len(w) : s[p + i - 1] = w[i]
    THEN p + Len(w)
    ELSE Fail

\* rule nocase(literal): literal.len() characters, compared with
\* eq_ignore_ascii_case
NoCase(s, p, w) ==
    IF /\ p # Fail
       /\ p + Len(w) - 1 <= Len(s)
       /\ \A i \in 1..Len(w) : Lower(s[p + i - 1]) = Lower(w[i])
    THEN p + Len(w)
    ELSE Fail

\* (!"\n" [_])*
RECURSIVE RestOfLine(_, _)
RestOfLine(s, p) ==
    IF p = Fail THEN Fail
    ELSE IF p <= Len(s) /\ s[p] # "\n" THEN RestOfLine(s, p + 1)
    ELSE p

\* ([^ '/' | '!'] / "//"): any one character but these two, a newline too
LineCommentFirst(s, q) ==
    IF q # Fail /\ q <= Len(s) /\ s[q] \notin {"/", "!"} THEN q + 1
    ELSE Lit(s, q, <<"/", "/">>)

\* the two alternatives of line_comment, q being the position after "//"
LineCommentAfter(s, q) == OrElse(RestOfLine(s, LineCommentFirst(s, q)), q)

\* rule line_comment
\*     = "//" ([^ '/' | '!'] / "//") (!"\n" [_])*
\*     / "//"
LineComment(s, p) == LineCommentAfter(s, Lit(s, p, <<"/", "/">>))

\* (!"*/" [_])*
RECURSIVE BlockBody(_, _)
BlockBody(s, p) ==
    IF p = Fail THEN Fail
    ELSE IF p <= Len(s) /\ Lit(s, p, <<"*", "/">>) = Fail
    THEN BlockBody(s, p + 1)
    ELSE p

\* rule block_comment
\*     = "/*" (!"*/" [_])* "*/"
\*     / "/**/"
\*     / "/***/"
BlockComment(s, p) ==
    OrElse(Lit(s, BlockBody(s, Lit(s, p, <<"/", "*">>)), <<"*", "/">>),
           OrElse(Lit(s, p, <<"/", "*", "*", "/">>),
                  Lit(s, p, <<"/", "*", "*", "*", "/">>)))

\* " " / "\n" / "\r" / "\t" / line_comment() / block_comment()
WsStep(s, p) ==
    IF p <= Len(s) /\ s[p] \in {" ", "\n", "\r", "\t"} THEN p + 1
    ELSE OrElse(LineComment(s, p), BlockComment(s, p))

RECURSIVE Ws(_, _)

\* the repetition of rule _ : q is where one more step has led from p
WsMore(s, p, q) == IF q = Fail THEN p ELSE Ws(s, q)

\* rule _ = quiet! { (" " / "\n" / "\r" / "\t" / line_comment() /
\* block_comment())* } / expected!("whitespace"): the repetition matches the
\* empty string too, so the second alternative is never taken and `_?` is `_`
Ws(s, p) == IF p = Fail THEN Fail ELSE WsMore(s, p, WsStep(s, p))

----------------------------------------------------------------------------
(* Keywords, names and literals *)

FlagWords ==
    << <<"s", "e", "r", "v", "e", "r">>,
       <<"u", "s", "e", "r">>,
       <<"n", "o", "s", "a", "v", "e">>,
       <<"n", "o", "a", "r", "c", "h", "i", "v", "e">>,
       <<"c", "h", "e", "a", "t">>,
       <<"l", "a", "t", "c", "h">> >>
FlagKinds == <<"Server", "User", "NoSave", "NoArchive", "Cheat", "Latch">>

TypeWords ==
    << <<"i", "n", "t">>,
       <<"f", "l", "o", "a", "t">>,
       <<"c", "o", "l", "o", "r">>,
       <<"b", "o", "o", "l">>,
       <<"s", "t", "r", "i", "n", "g">> >>
StorageTypes == <<"Int", "Float", "Color", "Bool", "String">>

\* nocase(w1) / nocase(w2) / ...: the first alternative that matches, or 0
RECURSIVE FirstWord(_, _, _, _)
FirstWord(s, p, words, i) ==
    IF i > Len(words) THEN 0
    ELSE IF NoCase(s, p, words[i]) # Fail THEN i
    ELSE FirstWord(s, p, words, i + 1)

FlagNode(p, i) ==
    IF i = 0 THEN [pos |-> Fail]
    ELSE [pos |-> p + Len(FlagWords[i]),
          node |-> [span |-> Span(p, p + Len(FlagWords[i])),
                    kind |-> FlagKinds[i]]]

\* rule flag
Flag(s, p) == FlagNode(p, FirstWord(s, p, FlagWords, 1))

TypeSpecNode(p, i) ==
    IF i = 0 THEN [pos |-> Fail]
    ELSE [pos |-> p + Len(TypeWords[i]),
          node |-> [span |-> Span(p, p + Len(TypeWords[i])),
                    storage_type |-> StorageTypes[i]]]

\* rule type_spec
TypeSpec(s, p) == TypeSpecNode(p, FirstWord(s, p, TypeWords, 1))

\* ['a'..='z' | 'A'..='Z' | '0'..='9' | '_']*
RECURSIVE NameRest(_, _)
NameRest(s, p) ==
    IF p <= Len(s) /\ s[p] \in Letters \cup Digits \cup {"_"}
    THEN NameRest(s, p + 1)
    ELSE p

\* the action of rule name: e is what Interner::intern gave
Identifier(p, q, e) ==
    [pos |-> q,
     node |-> [span |-> Span(p, q), string |-> e.index],
     tbl |-> e.set]

\* A plausible defect: the action pushes the matched text without a
\* lookup.
NameFromPush(s, p, q, tbl) ==
    Identifier(p, q, AddPush(tbl, SubSeq(s, p, q - 1)))

\* rule name: the action interns the matched text as soon as the rule
\* matches (Interner::intern with no other caller about is _lookup)
NameFrom(s, p, q, tbl) == Identifier(p, q, Lookup(tbl, SubSeq(s, p, q - 1)))

Name(s, p, tbl) ==
    IF p # Fail /\ p <= Len(s) /\ s[p] \in Letters
    THEN NameFrom(s, p, NameRest(s, p + 1), tbl)
    ELSE [pos |-> Fail, tbl |-> tbl]

RECURSIVE DigitRun(_, _)
DigitRun(s, p) ==
    IF p <= Len(s) /\ s[p] \in Digits THEN DigitRun(s, p + 1) ELSE p

OneOrMore(p, q) == IF q = p THEN Fail ELSE q

\* rule dec_num_str = $(['0'..='9']+)
DecNumStr(s, p) == IF p = Fail THEN Fail ELSE OneOrMore(p, DigitRun(s, p))

I32Max == 2147483647

\* str::parse::<i32> on decimal digits: checked_mul(10), checked_add(digit)
RECURSIVE AccI32(_, _, _)
AccI32(ds, i, acc) ==
    IF i > Len(ds) THEN [ok |-> TRUE, val |-> acc]
    ELSE IF acc > I32Max \div 10 THEN [ok |-> FALSE]
    ELSE IF acc * 10 > I32Max - DigitVal[ds[i]] THEN [ok |-> FALSE]
    ELSE AccI32(ds, i + 1, acc * 10 + DigitVal[ds[i]])

ParseI32(ds) == AccI32(ds, 1, 0)

RECURSIVE StripLeadingZeros(_)
StripLeadingZeros(ds) ==
    IF Len(ds) > 0 /\ ds[1] = "0" THEN StripLeadingZeros(Tail(ds)) ELSE ds

RECURSIVE StripTrailingZeros(_)
StripTrailingZeros(ds) ==
    IF Len(ds) > 0 /\ ds[Len(ds)] = "0"
    THEN StripTrailingZeros(SubSeq(ds, 1, Len(ds) - 1))
    ELSE ds

\* a >= b for decimal numerals without leading zeros
RECURSIVE DigitsGeq(_, _)
DigitsGeq(a, b) ==
    IF Len(a) # Len(b) THEN Len(a) > Len(b)
    ELSE IF Len(a) = 0 THEN TRUE
    ELSE IF a[1] # b[1] THEN DigitVal[a[1]] > DigitVal[b[1]]
    ELSE DigitsGeq(Tail(a), Tail(b))

\* 2^128 - 2^103: the least number that rounds to f32 infinity (halfway
\* between f32::MAX and 2^128, ties to even)
F32Overflow ==
    <<"3", "4", "0", "2", "8", "2", "3", "5", "6", "7", "7", "9", "7", "3",
    "3", "6", "6", "1", "6", "3", "7", "5", "3", "9", "3", "9", "5", "4",
    "5", "8", "1", "4", "2", "5", "6", "8", "4", "4", "8">>

\* the index of the "." of a numeral, or one past its end
RECURSIVE DotAt(_, _)
DotAt(ds, i) ==
    IF i > Len(ds) \/ ds[i] = "." THEN i ELSE DotAt(ds, i + 1)

F32Of(int, frac) ==
    IF DigitsGeq(int, F32Overflow)
    THEN [ok |-> TRUE, val |-> [inf |-> TRUE, int |-> <<>>, frac |-> <<>>]]
    ELSE [ok |-> TRUE, val |-> [inf |-> FALSE, int |-> int, frac |-> frac]]

F32Parts(ds, dot) ==
    F32Of(StripLeadingZeros(SubSeq(ds, 1, dot - 1)),
          StripTrailingZeros(SubSeq(ds, dot + 1, Len(ds))))

\* str::parse::<f32> on digits, digits "." or digits "." digits: never an
\* error; a numeral of 2^128 - 2^103 or more gives infinity.  A finite value
\* is kept as its numeral without leading and trailing zeros (its rounding
\* to binary32 is not computed).
ParseF32(ds) == F32Parts(ds, DotAt(ds, 1))

IntValue(q, r) ==
    IF r.ok THEN [pos |-> q, val |-> [kind |-> "Int", int |-> r.val]]
    ELSE [pos |-> Fail]

LitIntFrom(s, p, q) ==
    IF q = Fail THEN [pos |-> Fail]
    ELSE IntValue(q, ParseI32(SubSeq(s, p, q - 1)))

\* rule lit_int
LitInt(s, p) == LitIntFrom(s, p, DecNumStr(s, p))

\* the three alternatives of lit_float, q being the position after the
\* first dec_num_str
FloatTextAfter(s, q) ==
    OrElse(DecNumStr(s, Lit(s, q, <<".">>)), OrElse(Lit(s, q, <<".">>), q))

\* $( (dec_num_str() "." dec_num_str()) / (dec_num_str() ".") / dec_num_str() )
FloatText(s, p) == FloatTextAfter(s, DecNumStr(s, p))

FloatValue(q, r) ==
    IF r.ok THEN [pos |-> q, val |-> [kind |-> "Float", float |-> r.val]]
    ELSE [pos |-> Fail]

LitFloatFrom(s, p, q) ==
    IF q = Fail THEN [pos |-> Fail]
    ELSE FloatValue(q, ParseF32(SubSeq(s, p, q - 1)))

\* rule lit_float
LitFloat(s, p) == LitFloatFrom(s, p, FloatText(s, p))

\* $(digit_hex()*<2>)
Hex2(s, p) ==
    IF /\ p # Fail
       /\ p + 1 <= Len(s)
       /\ s[p] \in HexDigits
       /\ s[p + 1] \in HexDigits
    THEN p + 2
    ELSE Fail

\* u8::from_str_radix(text, 16) on two hexadecimal digits
HexByte(s, p) == 16 * HexVal[s[p]] + HexVal[s[p + 1]]

ColorValue(s, r, g, b, end) ==
    IF end = Fail THEN [pos |-> Fail]
    ELSE [pos |-> end,
          val |-> [kind |-> "Color", red |-> HexByte(s, r),
                   green |-> HexByte(s, g), blue |-> HexByte(s, b)]]

ColorBlue(s, r, g, b) ==
    ColorValue(s, r, g, b, Lit(s, Hex2(s, b), <<"\"">>))

ColorGreen(s, r, g) == ColorBlue(s, r, g, Ws(s, Hex2(s, g)))

ColorRed(s, r) == ColorGreen(s, r, Ws(s, Hex2(s, r)))

\* rule lit_color = "\"" red:$(digit_hex()*<2>) _? green:$(digit_hex()*<2>) _?
\* blue:$(digit_hex()*<2>) "\""
LitColor(s, p) == ColorRed(s, Lit(s, p, <<"\"">>))

\* rule lit_bool
LitBool(s, p) ==
    IF NoCase(s, p, <<"t", "r", "u", "e">>) # Fail
    THEN [pos |-> p + 4, val |-> [kind |-> "Bool", bool |-> TRUE]]
    ELSE IF NoCase(s, p, <<"f", "a", "l", "s", "e">>) # Fail
    THEN [pos |-> p + 5, val |-> [kind |-> "Bool", bool |-> FALSE]]
    ELSE [pos |-> Fail]

\* [^ '\"' | '\\']+
RECURSIVE StringBody(_, _)
StringBody(s, p) ==
    IF p <= Len(s) /\ s[p] \notin {"\"", "\\"} THEN StringBody(s, p + 1) ELSE p

StringValue(s, q, b, end) ==
    IF end = Fail THEN [pos |-> Fail]
    ELSE [pos |-> end,
          val |-> [kind |-> "String", string |-> SubSeq(s, q, b - 1)]]

StringClose(s, q, b) == StringValue(s, q, b, Lit(s, OneOrMore(q, b), <<"\"">>))

\* !("\r" [^ '\n']) then the body, q being the position after the quote
StringFrom(s, q) ==
    IF q = Fail \/ (q + 1 <= Len(s) /\ s[q] = "\r" /\ s[q + 1] # "\n")
    THEN [pos |-> Fail]
    ELSE StringClose(s, q, StringBody(s, q))

\* rule lit_string = "\"" inner:$(!("\r" [^ '\n']) [^ '\"' | '\\']+) "\""
LitString(s, p) == StringFrom(s, Lit(s, p, <<"\"">>))

\* lit_bool() / lit_float() / lit_int() / lit_color() / lit_string()
Literal(s, p) ==
    OrElseR(LitBool(s, p),
    OrElseR(LitFloat(s, p),
    OrElseR(LitInt(s, p),
    OrElseR(LitColor(s, p),
            LitString(s, p)))))

Initializer(p, v) ==
    IF v.pos = Fail THEN [pos |-> Fail]
    ELSE [pos |-> v.pos, node |-> [span |-> Span(p, v.pos), value |-> v.val]]

\* rule init = "=" _ value:(...)
Init(s, p) == Initializer(p, Literal(s, Ws(s, Lit(s, p, <<"=">>))))

----------------------------------------------------------------------------
(* Declarations and the lump *)

RECURSIVE Flags(_, _, _)

\* A plausible defect: a flag already in the list is not stored again.
FlagsPushNew(s, p, acc, f) ==
    IF f.pos = Fail THEN [pos |-> p, flags |-> acc]
    ELSE IF \E i \in 1..Len(acc) : acc[i].kind = f.node.kind
    THEN Flags(s, f.pos, acc)
    ELSE Flags(s, f.pos, Append(acc, f.node))

\* one round of flag() ** _ : f is the match of one more flag after p; it
\* is pushed at the end of the list, or the repetition ends at p
FlagsPush(s, p, acc, f) ==
    IF f.pos = Fail THEN [pos |-> p, flags |-> acc]
    ELSE Flags(s, f.pos, Append(acc, f.node))

\* flag() ** _ : the separator is matched before every element but the
\* first, and a separator with no element after it is given back
Flags(s, p, acc) ==
    FlagsPush(s, p, acc, Flag(s, IF acc = <<>> THEN p ELSE Ws(s, p)))

\* the action of rule definition
CVar(p, fl, ty, nm, in, end) ==
    IF end = Fail THEN [pos |-> Fail, tbl |-> nm.tbl]
    ELSE [pos |-> end,
          tbl |-> nm.tbl,
          node |-> [span |-> Span(p, end),
                    flags |-> fl.flags,
                    type_spec |-> ty.node,
                    name |-> nm.node,
                    init |-> IF in.pos = Fail THEN <<>> ELSE <<in.node>>]]

\* init:init()? _ ";" , q being the position after `name() _`
DefinitionInit(s, p, fl, ty, nm, q, in) ==
    CVar(p, fl, ty, nm, in,
         Lit(s, Ws(s, IF in.pos = Fail THEN q ELSE in.pos), <<";">>))

DefinitionAfterName(s, p, fl, ty, nm, q) ==
    DefinitionInit(s, p, fl, ty, nm, q, Init(s, q))

\* name:name() _ : the identifier stays interned if the rest does not match
DefinitionName(s, p, fl, ty, nm) ==
    IF nm.pos = Fail THEN [pos |-> Fail, tbl |-> nm.tbl]
    ELSE DefinitionAfterName(s, p, fl, ty, nm, Ws(s, nm.pos))

\* type_spec:type_spec() _
DefinitionType(s, p, tbl, fl, ty) ==
    IF ty.pos = Fail THEN [pos |-> Fail, tbl |-> tbl]
    ELSE DefinitionName(s, p, fl, ty, Name(s, Ws(s, ty.pos), tbl))

\* flags:(flag() ** _) _
DefinitionFlags(s, p, tbl, fl) ==
    DefinitionType(s, p, tbl, fl, TypeSpec(s, Ws(s, fl.pos)))

\* rule definition.  tbl is the interner as the rule finds it; the result's
\* tbl is the interner as the rule leaves it, whether it matched or not.
Definition(s, p, tbl) == DefinitionFlags(s, p, tbl, Flags(s, p, <<>>))

RECURSIVE Definitions(_, _, _, _)

DefinitionsPush(s, p, acc, d) ==
    IF d.pos = Fail THEN [pos |-> p, cvars |-> acc, tbl |-> d.tbl]
    ELSE Definitions(s, d.pos, Append(acc, d.node), d.tbl)

\* definition() ** _
Definitions(s, p, acc, tbl) ==
    DefinitionsPush(s, p, acc,
                    Definition(s, IF acc = <<>> THEN p ELSE Ws(s, p), tbl))

\* A plausible defect: the declarations matched so far are returned
\* whatever follows them.
LumpPartial(s, ds) == [ok |-> TRUE, cvars |-> ds.cvars, tbl |-> ds.tbl]

\* _? ![_] and the action of rule lump, ds being the match of the
\* declarations
LumpEnd(s, ds) ==
    [ok |-> Ws(s, ds.pos) > Len(s), cvars |-> ds.cvars, tbl |-> ds.tbl]

\* rule lump = _? definitions:(definition() ** _) _? ![_]
Lump(s, tbl) == LumpEnd(s, Definitions(s, Ws(s, 1), <<>>, tbl))

\* When the rule does not match, the generated parser runs it a second
\* time to find the error position, actions included, and returns the
\* error; the error's position and expectations are not modelled.
ParseResult(s, first) ==
    IF first.ok THEN first
    ELSE [ok |-> FALSE, cvars |-> <<>>, tbl |-> Lump(s, first.tbl).tbl]

\* CVarInfo::parse: parser::lump(input, interner)
Parse(s, tbl) == ParseResult(s, Lump(s, tbl))

----------------------------------------------------------------------------
(* The lumps handed to CVarInfo::parse.  A lump is written declaration by   *)
(* declaration; `written` keeps what was meant, independently of the       *)
(* grammar.  The declarations are those of test::smoke.                    *)

MaxDecls == 2
MaxDigits == 3
MaxLines == 3

DelusiveBunker ==
    [flags |->
        <<[word |-> <<"s", "e", "r", "v", "e", "r">>, kind |-> "Server"]>>,
     word |-> <<"i", "n", "t">>,
     type |-> "Int",
     name |-> <<"d", "e", "l", "u", "s", "i", "v", "e", "_", "b", "u", "n",
              "k", "e", "r">>,
     init |-> <<<<"4", "2">>>>]

MeatGrinder ==
    [flags |->
        <<[word |-> <<"U", "S", "E", "R">>, kind |-> "User"],
          [word |-> <<"l", "a", "t", "c", "h">>, kind |-> "Latch"]>>,
     word |-> <<"B", "O", "O", "L">>,
     type |-> "Bool",
     name |-> <<"M", "E", "A", "T", "_", "G", "R", "I", "N", "D", "E", "R">>,
     init |-> <<<<"f", "a", "l", "s", "e">>>>]

Blueroom ==
    [flags |->
        <<[word |-> <<"n", "O", "s", "A", "v", "E">>, kind |-> "NoSave"],
          [word |-> <<"c", "h", "e", "a", "t">>, kind |-> "Cheat"]>>,
     word |-> <<"c", "o", "l", "o", "r">>,
     type |-> "Color",
     name |-> <<"b", "l", "u", "e", "r", "o", "o", "m">>,
     init |-> <<<<"\"", "F", "5", " ", "3", "a", " ", "9", "5", "\"">>>>]

FullConfession ==
    [flags |->
        <<[word |-> <<"n", "o", "s", "a", "v", "e">>, kind |-> "NoSave"],
          [word |-> <<"s", "e", "r", "v", "e", "r">>, kind |-> "Server"],
          [word |-> <<"n", "o", "a", "r", "c", "h", "i", "v", "e">>, kind |-> "NoArchive"]>>,
     word |-> <<"f", "l", "o", "a", "t">>,
     type |-> "Float",
     name |-> <<"f", "u", "l", "l", "C", "o", "n", "f", "e", "s", "s", "i",
              "o", "n">>,
     init |-> <<<<"0", ".", "3", "6", "9">>>>]

ChemicalBrew ==
    [flags |->
        <<[word |-> <<"s", "e", "r", "v", "e", "r">>, kind |-> "Server"],
          [word |-> <<"u", "s", "e", "r">>, kind |-> "User"],
          [word |-> <<"n", "o", "s", "a", "v", "e">>, kind |-> "NoSave"],
          [word |-> <<"c", "h", "e", "a", "t">>, kind |-> "Cheat"],
          [word |-> <<"n", "o", "a", "r", "c", "h", "i", "v", "e">>, kind |-> "NoArchive"],
          [word |-> <<"l", "a", "t", "c", "h">>, kind |-> "Latch"],
          [word |-> <<"s", "e", "r", "v", "e", "r">>, kind |-> "Server"]>>,
     word |-> <<"b", "o", "o", "l">>,
     type |-> "Bool",
     name |-> <<"c", "h", "3", "m", "i", "c", "4", "l", "_", "b", "r", "3",
              "w">>,
     init |-> <<>>]

KatanaZero ==
    [flags |->
        <<[word |-> <<"u", "s", "e", "r">>, kind |-> "User"],
          [word |-> <<"n", "o", "s", "a", "v", "e">>, kind |-> "NoSave"]>>,
     word |-> <<"s", "t", "r", "i", "n", "g">>,
     type |-> "String",
     name |-> <<"K", "a", "t", "a", "n", "a", "Z", "E", "R", "O">>,
     init |-> <<<<"\"", "L", "u", "d", "o", "W", "i", "c", "\"">>>>]

SmokeDefinitions ==
    {DelusiveBunker, MeatGrinder, Blueroom, FullConfession, ChemicalBrew,
     KatanaZero}

\* what may stand between two tokens: a space, a newline and a tab, a block
\* comment, a line comment with its newline, or nothing
Separators ==
    { <<" ">>,
      <<"\n", "\t">>,
      <<"/", "*", "*", "/">>,
      <<"/", "/", " ", "c", "\n">>,
      <<>> }

\* texts that are no declaration: no name, a name that starts with a digit,
\* an initializer without a literal (after the name y), a stray character
Malformed ==
    { <<"i", "n", "t", ";">>,
      <<"i", "n", "t", " ", "9", "x", ";">>,
      <<"i", "n", "t", " ", "y", " ", "=", ";">>,
      <<"@">> }

RECURSIVE Join(_, _)
Join(tokens, sp) ==
    IF Len(tokens) = 0 THEN <<>>
    ELSE IF Len(tokens) = 1 THEN tokens[1]
    ELSE tokens[1] \o sp \o Join(Tail(tokens), sp)

\* the text of declaration d with sp between its tokens
Render(d, sp) ==
    Join([i \in 1..Len(d.flags) |-> d.flags[i].word]
             \o <<d.word, d.name>>
             \o (IF d.init = <<>> THEN <<>> ELSE << <<"=">>, d.init[1] >>)
             \o << <<";">> >>,
         sp)

InitLump(seps, tables) ==
    /\ set \in tables
    /\ before = set
    /\ sep \in seps
    /\ input = <<>>
    /\ written = <<>>
    /\ malformed = FALSE
    /\ intact = 0
    /\ glued = FALSE
    /\ phase = "write"
    /\ result = NoResult

\* the author writes one more declaration
WriteDefinition(d) ==
    /\ phase = "write"
    /\ Len(written) < MaxDecls
    /\ input' = input \o sep \o Render(d, sep)
    /\ written' = Append(written, d)
    /\ intact' = IF malformed THEN intact ELSE intact + 1
    /\ glued' = (glued \/ (sep = <<>> /\ (Len(d.flags) > 1 \/ written # <<>>)))
    /\ UNCHANGED <<set, threadVars, malformed, sep, phase, result, before>>

\* the author writes something that is no declaration
WriteMalformed(b) ==
    /\ phase = "write"
    /\ ~malformed
    /\ input' = input \o sep \o b
    /\ malformed' = TRUE
    /\ UNCHANGED <<set, threadVars, written, intact, glued, sep, phase, result,
                   before>>

\* CVarInfo::parse(input, interner)
Returned(r) ==
    /\ phase \in {"write", "closed"}
    /\ phase' = "parsed"
    /\ result' = [ok |-> r.ok, cvars |-> r.cvars]
    /\ set' = r.tbl
    /\ UNCHANGED <<threadVars, input, written, malformed, intact, glued, sep,
                   before>>

ParseInput == Returned(Parse(input, set))

NextDoc ==
    \/ \E d \in SmokeDefinitions : WriteDefinition(d)
    \/ \E b \in Malformed : WriteMalformed(b)
    \/ ParseInput

\* the interner is new, or it holds a name already
InitDoc == InitIntern /\ InitLump(Separators, {<<>>, <<Blueroom.name>>})

SpecDoc == InitDoc /\ [][NextDoc]_vars

----------------------------------------------------------------------------
(* Lumps of one declaration with a numeral as its initializer *)

NumeralX == <<"x">>

\* numerals at the edges of i32 and f32: i32::MAX and the next number,
\* 2^32, f32::MAX, the least numeral that rounds to infinity, forty nines,
\* leading zeros, and numerals with a decimal point
EdgeNumerals ==
    { <<"2", "1", "4", "7", "4", "8", "3", "6", "4", "7">>,
      <<"2", "1", "4", "7", "4", "8", "3", "6", "4", "8">>,
      <<"4", "2", "9", "4", "9", "6", "7", "2", "9", "6">>,
      <<"3", "4", "0", "2", "8", "2", "3", "4", "6", "6", "3", "8", "5",
      "2", "8", "8", "5", "9", "8", "1", "1", "7", "0", "4", "1", "8", "3",
      "4", "8", "4", "5", "1", "6", "9", "2", "5", "4", "4", "0">>,
      <<"3", "4", "0", "2", "8", "2", "3", "5", "6", "7", "7", "9", "7",
      "3", "3", "6", "6", "1", "6", "3", "7", "5", "3", "9", "3", "9", "5",
      "4", "5", "8", "1", "4", "2", "5", "6", "8", "4", "4", "8">>,
      <<"9", "9", "9", "9", "9", "9", "9", "9", "9", "9", "9", "9", "9",
      "9", "9", "9", "9", "9", "9", "9", "9", "9", "9", "9", "9", "9", "9",
      "9", "9", "9", "9", "9", "9", "9", "9", "9", "9", "9", "9", "9">>,
      <<"0", "0", "7">>,
      <<"1", ".">>,
      <<"1", ".", "5">>,
      <<"0", ".", "3", "6", "9">> }

Numerals ==
    EdgeNumerals
        \cup UNION {[1..n -> {"0", "1", "9"}] : n \in 1..MaxDigits}

\* the author writes `int x = n;` or `float x = n;`
WriteNumeral(ty, n) ==
    /\ phase = "write"
    /\ written = <<>>
    /\ input' = Render([flags |-> <<>>, word |-> TypeWords[ty],
                        type |-> StorageTypes[ty], name |-> NumeralX,
                        init |-> <<n>>], sep)
    /\ written' = <<[flags |-> <<>>, word |-> TypeWords[ty],
                     type |-> StorageTypes[ty], name |-> NumeralX,
                     init |-> <<n>>]>>
    /\ intact' = 1
    /\ UNCHANGED <<set, threadVars, malformed, glued, sep, phase, result, before>>

NextLit ==
    \/ \E ty \in {1, 2}, n \in Numerals : WriteNumeral(ty, n)
    \/ ParseInput

InitLit == InitIntern /\ InitLump({<<" ">>}, {<<>>})

SpecLit == InitLit /\ [][NextLit]_vars

----------------------------------------------------------------------------
(* Lumps written line by line, with line comments *)

\* what follows the "//" of a line comment: nothing, a note, two more
\* slashes
CommentBodies ==
    { <<>>,
      <<" ", "n", "o", "t", "e">>,
      <<"/", "/">> }

\* the lines ended so far
Lines(s) == Cardinality({i \in 1..Len(s) : s[i] = "\n"})

\* the author writes a line comment and ends the line
WriteLineComment(body) ==
    /\ phase = "write"
    /\ Lines(input) < MaxLines
    /\ input' = input \o <<"/", "/">> \o body \o <<"\n">>
    /\ UNCHANGED <<set, threadVars, written, malformed, intact, glued, sep,
                   phase, result, before>>

\* the author writes a line comment and ends the lump there
WriteLastComment(body) ==
    /\ phase = "write"
    /\ input' = input \o <<"/", "/">> \o body
    /\ phase' = "closed"
    /\ UNCHANGED <<set, threadVars, written, malformed, intact, glued, sep,
                   result, before>>

\* the author writes a declaration on a line of its own
WriteDefinitionLine(d) ==
    /\ phase = "write"
    /\ Lines(input) < MaxLines
    /\ Len(written) < MaxDecls
    /\ input' = input \o Render(d, sep) \o <<"\n">>
    /\ written' = Append(written, d)
    /\ intact' = intact + 1
    /\ UNCHANGED <<set, threadVars, malformed, glued, sep, phase, result, before>>

NextComment ==
    \/ \E b \in CommentBodies : WriteLineComment(b)
    \/ \E b \in CommentBodies : WriteLastComment(b)
    \/ \E d \in SmokeDefinitions : WriteDefinitionLine(d)
    \/ ParseInput

InitComment == InitIntern /\ InitLump({<<" ">>}, {<<>>})

SpecComment == InitComment /\ [][NextComment]_vars

----------------------------------------------------------------------------
(* The interner's operations called one at a time by a single owner *)

Issue(s, i) == IF i = NoIndex THEN issued ELSE issued \cup {Handle(s, i)}

\* Interner::intern with no other thread about: try_lookup, then add
OpIntern(s) ==
    /\ set' = Lookup(set, s).set
    /\ issued' = Issue(s, Lookup(set, s).index)
    /\ ret' = [op |-> "intern", index |-> Lookup(set, s).index, text |-> s]
    /\ UNCHANGED <<readers, writer, pc, text, handle, epoch, parseVars>>

OpAdd(s) ==
    /\ set' = Add(set, s).set
    /\ issued' = Issue(s, Add(set, s).index)
    /\ ret' = [op |-> "add", index |-> Add(set, s).index, text |-> s]
    /\ UNCHANGED <<readers, writer, pc, text, handle, epoch, parseVars>>

OpLookup(s) ==
    /\ set' = Lookup(set, s).set
    /\ issued' = Issue(s, Lookup(set, s).index)
    /\ ret' = [op |-> "_lookup", index |-> Lookup(set, s).index, text |-> s]
    /\ UNCHANGED <<readers, writer, pc, text, handle, epoch, parseVars>>

OpTryLookup(s) ==
    /\ issued' = Issue(s, TryLookup(set, s))
    /\ ret' = [op |-> "try_lookup", index |-> TryLookup(set, s), text |-> s]
    /\ UNCHANGED <<set, readers, writer, pc, text, handle, epoch, parseVars>>

\* get on an index some earlier operation returned
OpGet(i) ==
    /\ ret' = [op |-> "get", index |-> i, text |-> Get(set, i)]
    /\ UNCHANGED <<set, readers, writer, pc, text, handle, issued, epoch,
                   parseVars>>

\* Interner::_clear: self.set.clear()
OpClear ==
    /\ epoch < MaxClears
    /\ set' = <<>>
    /\ epoch' = epoch + 1
    /\ ret' = [op |-> "_clear", index |-> NoIndex, text |-> <<>>]
    /\ UNCHANGED <<readers, writer, pc, text, handle, issued, parseVars>>

NextOps ==
    \/ \E s \in Texts : OpIntern(s)
    \/ \E s \in Texts : OpAdd(s)
    \/ \E s \in Texts : OpLookup(s)
    \/ \E s \in Texts : OpTryLookup(s)
    \/ \E h \in issued : OpGet(h.index)
    \/ OpClear

SpecOps == InitThreads /\ [][NextOps]_vars

----------------------------------------------------------------------------
(* C1 *)

NoDuplicateEntry ==
    \A i, j \in 1..Len(set) : set[i] = set[j] => i = j

\* C1: however the threads' intern calls interleave, two calls made with
\* equal text returned handles with the same index, every returned handle
\* resolves through get to the text it was made from, and the table holds
\* no text at two indices.
InternIdempotent ==
    /\ \A h1, h2 \in issued : h1.text = h2.text => h1.index = h2.index
    /\ \A h \in issued : Get(set, h.index) = h.text
    /\ NoDuplicateEntry

\* Two threads missed on the same text; one has inserted it and returned,
\* the other now holds the write guard and is about to add it again.
RacingInsert ==
    \E t, u \in Threads :
        /\ t # u
        /\ pc[t] = "add"
        /\ TryLookup(set, text[t]) # NoIndex
        /\ pc[u] = "idle"
        /\ handle[u] = TryLookup(set, text[t])
        /\ Handle(text[t], handle[u]) \in issued

----------------------------------------------------------------------------
(* C3 *)

Requesting(t) == pc[t] \in {"read_req", "write_req", "handle_req"}

NoReentry ==
    \A t \in Threads : Requesting(t) => t \notin readers /\ writer # t

Returns == \A t \in Threads : (pc[t] # "idle") ~> (pc[t] = "idle")

\* C3: no thread requests the interner lock while it holds a guard on it (so
\* the read guard of intern is gone before the write lock is requested), and
\* with fair scheduling every started intern, hash or fmt call returns.
NoDeadlock == []NoReentry /\ Returns

\* A thread waits for the write lock while another holds a read guard.
WriterWaitsForReader ==
    \E t, u \in Threads : pc[t] = "write_req" /\ u \in readers /\ t # u

----------------------------------------------------------------------------
(* C2 *)

\* C2 as stated: every index ever issued still resolves to its text, and no
\* index was issued for two texts.
IndexStableForever ==
    /\ \A h \in issued : Get(set, h.index) = h.text
    /\ \A h1, h2 \in issued : h1.index = h2.index => h1.text = h2.text

\* C2 as amended: an index issued since the last _clear resolves to its text
\* whatever intern, add, _lookup, try_lookup and get calls came later, and no
\* other text was given that index since the last _clear.
IndexStableUntilClear ==
    /\ \A h \in issued : h.epoch = epoch => Get(set, h.index) = h.text
    /\ \A h1, h2 \in issued :
           h1.epoch = h2.epoch /\ h1.index = h2.index => h1.text = h2.text

\* After a _clear: index 0 was issued, another text was inserted later, and
\* get on index 0 has just been called.
LaterInsertAfterIssue ==
    /\ epoch > 0
    /\ Len(set) > 1
    /\ ret.op = "get"
    /\ ret.index = 0
    /\ \E h \in issued : h.epoch = epoch /\ h.index = 0

----------------------------------------------------------------------------
(* C6 *)

\* C6: CVarInfo::parse returns a CVarInfo only for a lump that is
\* declarations and nothing else, and then all of them; when something
\* malformed was written, before, between or after well-formed declarations,
\* the result is an error that carries no declaration.
AllOrNothing ==
    phase = "parsed" =>
        /\ result.ok => ~malformed /\ Len(result.cvars) = Len(written)
        /\ malformed => ~result.ok /\ result.cvars = <<>>

\* A lump with a well-formed declaration before something malformed was
\* parsed, and the result is an error.
MalformedAfterDeclaration ==
    /\ phase = "parsed"
    /\ malformed
    /\ intact > 0
    /\ ~result.ok

----------------------------------------------------------------------------
(* C7 *)

KindsWritten(d) == [i \in 1..Len(d.flags) |-> d.flags[i].kind]
KindsParsed(c) == [i \in 1..Len(c.flags) |-> c.flags[i].kind]

\* C7: on a successful parse the i-th CVar is the i-th declaration written:
\* its name resolves to the identifier written, its type is the one written
\* and its flags are the flag keywords written, in that order, repeats
\* included.
SourceOrderPreserved ==
    phase = "parsed" /\ result.ok =>
        /\ Len(result.cvars) = Len(written)
        /\ \A i \in 1..Len(result.cvars) :
            /\ Get(set, result.cvars[i].name.string) = written[i].name
            /\ result.cvars[i].type_spec.storage_type = written[i].type
            /\ KindsParsed(result.cvars[i]) = KindsWritten(written[i])

\* `server user nosave cheat noarchive latch server bool ch3mic4l_br3w;` was
\* parsed as the second declaration of a lump: 7 flags, Server first and last.
SevenFlagsParsed ==
    /\ phase = "parsed"
    /\ result.ok
    /\ Len(written) = 2
    /\ written[1] # ChemicalBrew
    /\ written[2] = ChemicalBrew
    /\ Len(result.cvars[2].flags) = 7
    /\ result.cvars[2].flags[1].kind = "Server"
    /\ result.cvars[2].flags[7].kind = "Server"

----------------------------------------------------------------------------
(* C8 *)

IsPrefix(a, b) == Len(a) <= Len(b) /\ \A i \in 1..Len(a) : a[i] = b[i]

Entries == {set[i] : i \in 1..Len(set)}

\* the identifiers in the lump: the names of the declarations, and the y of
\* the malformed `int y =;`
IdentifiersWritten ==
    {written[i].name : i \in 1..Len(written)}
        \cup (IF malformed THEN {<<"y">>} ELSE {})

\* C8 as stated: after a failed parse the interner holds exactly the entries
\* it held before the call.
FailedParseLeavesInterner ==
    phase = "parsed" /\ ~result.ok => set = before

\* C8 as amended: a parse, failed or not, only appends to the interner: the
\* entries held before keep their indices, every new entry is an identifier
\* written in the lump, and the names of the declarations written before
\* anything malformed are entries afterwards, also when the parse failed.
ParseOnlyAppends ==
    phase = "parsed" =>
        /\ IsPrefix(before, set)
        /\ Entries \subseteq {before[i] : i \in 1..Len(before)}
                                \cup IdentifiersWritten
        /\ \A i \in 1..intact : written[i].name \in Entries
        /\ NoDuplicateEntry

\* A parse failed on a non-empty interner and left a new entry behind.
FailedParseInterned ==
    /\ phase = "parsed"
    /\ ~result.ok
    /\ before # <<>>
    /\ Len(set) > Len(before)

----------------------------------------------------------------------------
(* C10 *)

\* C10: a parse succeeds only if no two flag keywords and no two
\* declarations were written with nothing between them.
SeparatorsRequired == phase = "parsed" /\ result.ok => ~glued

----------------------------------------------------------------------------
(* C4, C5 *)

IsNumeral(n) == \A i \in 1..Len(n) : n[i] \in Digits

\* C4: `int x = d;` with d a digit string that fits i32 parses to Int(d).
BareDigitsAreInt ==
    /\ phase = "parsed"
    /\ Len(written) = 1
    /\ written[1].type = "Int"
    /\ written[1].init # <<>>
    /\ IsNumeral(written[1].init[1])
    /\ ParseI32(written[1].init[1]).ok
    => /\ result.ok
       /\ result.cvars[1].init # <<>>
       /\ result.cvars[1].init[1].value.kind = "Int"
       /\ result.cvars[1].init[1].value.int = ParseI32(written[1].init[1]).val

\* the numeral is integer-shaped, initializes an int and exceeds i32::MAX,
\* or it rounds to f32 infinity
OutOfRange(d) ==
    \/ d.type = "Int" /\ IsNumeral(d.init[1]) /\ ~ParseI32(d.init[1]).ok
    \/ ParseF32(d.init[1]).val.inf

\* C5: a numeral beyond the range of its target type makes the parse fail.
OutOfRangeFails ==
    /\ phase = "parsed"
    /\ Len(written) = 1
    /\ written[1].init # <<>>
    /\ written[1].type \in {"Int", "Float"}
    /\ OutOfRange(written[1])
    => ~result.ok

----------------------------------------------------------------------------
(* C9 *)

NamesParsed == [i \in 1..Len(result.cvars) |->
                    Get(set, result.cvars[i].name.string)]
NamesWritten == [i \in 1..Len(written) |-> written[i].name]

\* C9: a line comment ends at the end of its line, so the declarations on
\* the lines after it are parsed and are the result.
LineCommentEndsAtNewline ==
    phase = "parsed" /\ Len(written) > 0 => result.ok /\ NamesParsed = NamesWritten

=============================================================================
